---- MODULE Spec2Model ----
(***************************************************************************)
(* Model of arsenal/maths/rvs.py: TruncatedDistribution, Empirical and the *)
(* inverse-CDF discrete samplers sample / log_sample.                      *)
(*                                                                         *)
(* Numbers are exact fractions <<n, d>> in lowest terms with d > 0.  The   *)
(* non-finite results of numpy's floating point division by zero are kept  *)
(* as <<1, 0>> (+inf), <<-1, 0>> (-inf) and <<0, 0>> (nan).  Rounding of   *)
(* finite floating point results is not modelled.                          *)
(***************************************************************************)
EXTENDS Integers, Sequences, FiniteSets, TLC

VARIABLES t, e, xin, call, ret

vars == <<t, e, xin, call, ret>>

\* ------------------------------------------------------------------ bounds
NumKnots == 3       \* the base distributions have support [0, NumKnots]
CdfRes == 3         \* base cdf values at the knots are multiples of 1/CdfRes
XDen == 2           \* query points x are multiples of 1/XDen
UDen == 4           \* probabilities u, q are multiples of 1/UDen
MaxLen == 3         \* longest sample array / weight vector
MaxVal == 2         \* sample values are 0..MaxVal
MaxSize == 2        \* largest size= argument
MaxLogW == 1        \* log-weights are -MaxLogW..MaxLogW (in units of ln 2)

\* -------------------------------------------------------------- arithmetic
Abs(n) == IF n < 0 THEN -n ELSE n

Sign(n) == IF n > 0 THEN 1 ELSE IF n < 0 THEN -1 ELSE 0

RECURSIVE GCD(_, _)
GCD(m, n) == IF n = 0 THEN m ELSE GCD(n, m % n)

Frac(n, d) ==
    IF d = 0 THEN <<Sign(n), 0>>
    ELSE LET g == GCD(Abs(n), Abs(d))
             s == Sign(d)
         IN  <<(s * n) \div g, (s * d) \div g>>

Nan == <<0, 0>>
Inf == <<1, 0>>
Zero == <<0, 1>>
One == <<1, 1>>

IsFinite(p) == p[2] # 0

\* p + q
FAdd(p, q) ==
    IF IsFinite(p) /\ IsFinite(q) THEN Frac(p[1] * q[2] + q[1] * p[2], p[2] * q[2])
    ELSE IF p = Nan \/ q = Nan THEN Nan
    ELSE IF IsFinite(p) THEN q
    ELSE IF IsFinite(q) THEN p
    ELSE IF p = q THEN p ELSE Nan

FNeg(p) == <<-p[1], p[2]>>

\* p - q
FSub(p, q) == FAdd(p, FNeg(q))

\* p * q
FMul(p, q) ==
    IF IsFinite(p) /\ IsFinite(q) THEN Frac(p[1] * q[1], p[2] * q[2])
    ELSE IF p = Nan \/ q = Nan \/ p[1] = 0 \/ q[1] = 0 THEN Nan
    ELSE <<Sign(p[1]) * Sign(q[1]), 0>>

\* p / q with numpy's float semantics: x/0 is +-inf, 0/0 is nan
FDiv(p, q) ==
    IF IsFinite(p) /\ IsFinite(q) THEN Frac(p[1] * q[2], p[2] * q[1])
    ELSE IF IsFinite(p) /\ q # Nan THEN Zero
    ELSE IF IsFinite(q) /\ p # Nan /\ q[1] # 0 THEN <<p[1] * Sign(q[1]), 0>>
    ELSE Nan

\* p < q ; every comparison with nan is false
FLt(p, q) ==
    IF p = Nan \/ q = Nan THEN FALSE
    ELSE IF IsFinite(p) /\ IsFinite(q) THEN p[1] * q[2] < q[1] * p[2]
    ELSE IF IsFinite(p) THEN q[1] > 0
    ELSE IF IsFinite(q) THEN p[1] < 0
    ELSE p[1] < q[1]

\* p <= q
FLe(p, q) == p # Nan /\ q # Nan /\ (p = q \/ FLt(p, q))

\* np.minimum(p, q): propagates nan
FMin(p, q) == IF p = Nan \/ q = Nan THEN Nan ELSE IF FLe(p, q) THEN p ELSE q

\* a boolean used as a number
Ind(bool) == IF bool THEN One ELSE Zero

\* floor of a finite fraction
Floor(p) == p[1] \div p[2]

\* ceiling of a finite fraction
Ceil(p) == -((-p[1]) \div p[2])

\* ------------------------------------------------- base distribution d
\* The wrapped distribution d is an input: a continuous distribution on
\* [0, NumKnots] whose cdf is piecewise linear between the integer knots.
\* d[i + 1] is CdfRes * cdf(i).
BaseDistributions ==
    { d \in [1..(NumKnots + 1) -> 0..CdfRes] :
        /\ d[1] = 0
        /\ d[NumKnots + 1] = CdfRes
        /\ \A i \in 1..NumKnots : d[i] <= d[i + 1] }

\* d.cdf(x)
d_cdf(d, x) ==
    IF FLe(x, Zero) THEN Zero
    ELSE IF FLe(Frac(NumKnots, 1), x) THEN One
    ELSE LET i == Floor(x)
             r == FSub(x, Frac(i, 1))
         IN  FDiv(FAdd(Frac(d[i + 1], 1), FMul(r, Frac(d[i + 2] - d[i + 1], 1))),
                  Frac(CdfRes, 1))

\* d.ppf(p): the generalized inverse inf {x : cdf(x) >= p}; ppf(0) is the
\* lower end of the support; nan outside [0, 1]
d_ppf(d, p) ==
    IF ~(FLe(Zero, p) /\ FLe(p, One)) THEN Nan
    ELSE IF p = Zero
    THEN Frac(CHOOSE i \in 0..NumKnots :
                 d[i + 1] = 0 /\ (i = NumKnots \/ d[i + 2] > 0), 1)
    ELSE LET ps == FMul(p, Frac(CdfRes, 1))
             i  == CHOOSE j \in 1..NumKnots :
                      /\ FLt(Frac(d[j], 1), ps)
                      /\ FLe(ps, Frac(d[j + 1], 1))
         IN  FAdd(Frac(i - 1, 1),
                  FDiv(FSub(ps, Frac(d[i], 1)), Frac(d[i + 1] - d[i], 1)))

\* d.pdf(x): the (left) derivative of the cdf
d_pdf(d, x) ==
    IF FLe(x, Zero) \/ FLt(Frac(NumKnots, 1), x) THEN Zero
    ELSE LET i == Ceil(x)
         IN  Frac(d[i + 1] - d[i], CdfRes)

\* ------------------------------------------------ TruncatedDistribution
NoTrunc == [made |-> FALSE]

\* TruncatedDistribution.__init__ after the assertion
TruncatedDistribution_init(d, a, b) ==
    LET cdf_b == d_cdf(d, b)
        cdf_a == d_cdf(d, a)
    IN  [made |-> TRUE, d |-> d, a |-> a, b |-> b,
         cdf_b |-> cdf_b, cdf_a |-> cdf_a, cdf_w |-> FSub(cdf_b, cdf_a)]

TruncatedDistribution_pdf(self, x) ==
    FDiv(FMul(FMul(Ind(FLe(self.a, x)), Ind(FLe(x, self.b))), d_pdf(self.d, x)),
         self.cdf_w)

\* a ppf that measures from the upper end of the interval
TruncatedDistribution_ppf_from_b(self, u) ==
    d_ppf(self.d, FSub(self.cdf_b, FMul(u, self.cdf_w)))

TruncatedDistribution_ppf(self, u) ==
    d_ppf(self.d, FAdd(self.cdf_a, FMul(u, self.cdf_w)))

\* a cdf without the np.minimum(1, .) clamp
TruncatedDistribution_cdf_unclamped(self, x) ==
    FDiv(FMul(Ind(FLe(self.a, x)), FSub(d_cdf(self.d, x), self.cdf_a)), self.cdf_w)

TruncatedDistribution_cdf(self, x) ==
    FMin(One,
         FDiv(FMul(Ind(FLe(self.a, x)), FSub(d_cdf(self.d, x), self.cdf_a)),
              self.cdf_w))

TruncatedDistribution_sf(self, x) == FSub(One, TruncatedDistribution_cdf(self, x))

\* the result of a call: a value, or the exception it raised
Ok(v) == [kind |-> "ok", val |-> v]
Raise(exc) == [kind |-> exc, val |-> Nan]

\* query points and probabilities
XGrid == { Frac(k, XDen) : k \in (-XDen)..((NumKnots + 1) * XDen) }
UGrid == { Frac(k, UDen) : k \in 0..UDen }
UniformDraws == { Frac(k, UDen) : k \in 0..(UDen - 1) }
Bounds == { Frac(k, 1) : k \in (-1)..(NumKnots + 1) }

\* a value object: constructed once, then only queried
TConstruct ==
    /\ ~t.made
    /\ \E d \in BaseDistributions, a \in Bounds, b \in Bounds :
        /\ call' = [op |-> "TruncatedDistribution", a |-> a, b |-> b]
        /\ IF FLe(a, b)
           THEN /\ t' = TruncatedDistribution_init(d, a, b)
                /\ ret' = Ok(Zero)
           ELSE /\ t' = t
                /\ ret' = Raise("AssertionError")
        /\ UNCHANGED <<e, xin>>

TPdf ==
    /\ t.made
    /\ \E x \in XGrid :
        /\ call' = [op |-> "pdf", x |-> x]
        /\ ret' = Ok(TruncatedDistribution_pdf(t, x))
    /\ UNCHANGED <<t, e, xin>>

TCdf ==
    /\ t.made
    /\ \E x \in XGrid :
        /\ call' = [op |-> "cdf", x |-> x]
        /\ ret' = Ok(TruncatedDistribution_cdf(t, x))
    /\ UNCHANGED <<t, e, xin>>

TSf ==
    /\ t.made
    /\ \E x \in XGrid :
        /\ call' = [op |-> "sf", x |-> x]
        /\ ret' = Ok(TruncatedDistribution_sf(t, x))
    /\ UNCHANGED <<t, e, xin>>

TPpf ==
    /\ t.made
    /\ \E u \in UGrid :
        /\ call' = [op |-> "ppf", u |-> u]
        /\ ret' = Ok(TruncatedDistribution_ppf(t, u))
    /\ UNCHANGED <<t, e, xin>>

TRvs ==
    /\ t.made
    /\ \E u \in UniformDraws :
        /\ call' = [op |-> "rvs", u |-> u]
        /\ ret' = Ok(TruncatedDistribution_ppf(t, u))
    /\ UNCHANGED <<t, e, xin>>

NoEmpirical == [made |-> FALSE]
NoCall == [op |-> "none"]

Init ==
    /\ t = NoTrunc
    /\ e = NoEmpirical
    /\ xin = <<>>
    /\ call = NoCall
    /\ ret = Ok(Zero)

NextT == TConstruct \/ TPdf \/ TCdf \/ TSf \/ TPpf \/ TRvs

SpecT == Init /\ [][NextT]_vars

\* ---------------------------------------------------------------- Empirical
\* x.sort(): ascending, ties retained
RECURSIVE Insert(_, _)
Insert(s, v) ==
    IF s = <<>> THEN <<v>>
    ELSE IF FLe(v, Head(s)) THEN <<v>> \o s
    ELSE <<Head(s)>> \o Insert(Tail(s), v)

RECURSIVE sort(_)
sort(x) == IF x = <<>> THEN <<>> ELSE Insert(sort(Tail(x)), Head(x))

\* the binary search of ndarray.searchsorted over positions lo..hi (0-based)
RECURSIVE bisect(_, _, _, _, _)
bisect(arr, v, side, lo, hi) ==
    IF lo >= hi THEN lo
    ELSE LET mid == lo + ((hi - lo) \div 2)
             goRight == IF side = "left" THEN FLt(arr[mid + 1], v)
                                          ELSE FLe(arr[mid + 1], v)
         IN  IF goRight THEN bisect(arr, v, side, mid + 1, hi)
                        ELSE bisect(arr, v, side, lo, mid)

searchsorted(arr, v, side) == bisect(arr, v, side, 0, Len(arr))

Empirical_init(x) == [made |-> TRUE, x |-> sort(x), n |-> Len(x)]

\* a cdf that searches with side='left'
Empirical_call_left(self, z) ==
    FDiv(Frac(searchsorted(self.x, z, "left"), 1), Frac(self.n, 1))

Empirical_call(self, z) ==
    FDiv(Frac(searchsorted(self.x, z, "right"), 1), Frac(self.n, 1))

Empirical_sf(self, z) == FSub(One, Empirical_call(self, z))

\* the loop of conditional_mean over range(i, stop)
RECURSIVE cm_loop(_, _, _, _, _)
cm_loop(self, i, stop, m, n) ==
    IF i >= stop THEN <<m, n>>
    ELSE cm_loop(self, i + 1, stop, FAdd(m, self.x[i + 1]), n + 1)

Empirical_conditional_mean(self, a, b) ==
    LET r == cm_loop(self, searchsorted(self.x, a, "right"),
                     searchsorted(self.x, b, "left"), Zero, 0)
    IN  IF r[2] > 0 THEN FDiv(r[1], Frac(r[2], 1)) ELSE Inf

\* a quantile that takes position floor(q * n), clipped to the last one
Empirical_quantile_scaled_by_n(self, q) ==
    IF ~(FLe(Zero, q) /\ FLe(q, One)) THEN Raise("AssertionError")
    ELSE LET i == Floor(FMul(q, Frac(self.n, 1)))
         IN  Ok(self.x[(IF i > self.n - 1 THEN self.n - 1 ELSE i) + 1])

\* a quantile with interpolation='higher'
Empirical_quantile_higher(self, q) ==
    IF ~(FLe(Zero, q) /\ FLe(q, One)) THEN Raise("AssertionError")
    ELSE Ok(self.x[Ceil(FMul(q, Frac(self.n - 1, 1))) + 1])

\* np.quantile(x, q, interpolation='lower') is x[floor(q * (n - 1))]
Empirical_quantile(self, q) ==
    IF ~(FLe(Zero, q) /\ FLe(q, One)) THEN Raise("AssertionError")
    ELSE Ok(self.x[Floor(FMul(q, Frac(self.n - 1, 1))) + 1])

SampleValues == { Frac(k, 1) : k \in 0..MaxVal }
SampleArrays == UNION { [1..n -> SampleValues] : n \in 1..MaxLen }
ZGrid == { Frac(k, 1) : k \in (-1)..(MaxVal + 1) }
QGrid == { Frac(k, dd) : k \in (-1)..(MaxLen + 2), dd \in 1..(MaxLen + 1) }

EConstruct ==
    /\ ~e.made
    /\ \E x \in SampleArrays :
        /\ xin' = x
        /\ e' = Empirical_init(x)
        /\ call' = [op |-> "Empirical"]
        /\ ret' = Ok(Zero)
    /\ UNCHANGED t

ECdf ==
    /\ e.made
    /\ \E z \in ZGrid :
        /\ call' = [op |-> "cdf", z |-> z]
        /\ ret' = Ok(Empirical_call(e, z))
    /\ UNCHANGED <<t, e, xin>>

ESf ==
    /\ e.made
    /\ \E z \in ZGrid :
        /\ call' = [op |-> "sf", z |-> z]
        /\ ret' = Ok(Empirical_sf(e, z))
    /\ UNCHANGED <<t, e, xin>>

EConditionalMean ==
    /\ e.made
    /\ \E a \in ZGrid, b \in ZGrid :
        /\ call' = [op |-> "conditional_mean", a |-> a, b |-> b]
        /\ ret' = Ok(Empirical_conditional_mean(e, a, b))
    /\ UNCHANGED <<t, e, xin>>

EQuantile ==
    /\ e.made
    /\ \E q \in QGrid :
        /\ call' = [op |-> "quantile", q |-> q]
        /\ ret' = Empirical_quantile(e, q)
    /\ UNCHANGED <<t, e, xin>>

NextE == EConstruct \/ ECdf \/ ESf \/ EConditionalMean \/ EQuantile

SpecE == Init /\ [][NextE]_vars

\* ------------------------------------------------------- sample, log_sample
NoSize == -1                                 \* size=None
NoU == [given |-> FALSE, scalar |-> TRUE, vals |-> <<>>]      \* u=None
ScalarU(v) == [given |-> TRUE, scalar |-> TRUE, vals |-> <<v>>]
ArrayU(vs) == [given |-> TRUE, scalar |-> FALSE, vals |-> vs]

\* numpy.cumsum
RECURSIVE cumsum(_)
cumsum(w) ==
    IF Len(w) = 1 THEN w
    ELSE LET c == cumsum(SubSeq(w, 1, Len(w) - 1))
         IN  Append(c, FAdd(c[Len(c)], w[Len(w)]))

\* uniform(0, 1, size=size) given the generator's next draws rnd
uniform(size, rnd) ==
    IF size = NoSize THEN [given |-> TRUE, scalar |-> TRUE, vals |-> <<rnd[1]>>]
    ELSE [given |-> TRUE, scalar |-> FALSE, vals |-> SubSeq(rnd, 1, size)]

\* a sample that searches with side='right'
sample_right(w, size, u, rnd) ==
    LET c == cumsum(w)
    IN  IF ~u.given /\ size # NoSize THEN Raise("AssertionError")
        ELSE LET uu == IF u.given THEN u ELSE uniform(size, rnd)
             IN  Ok([scalar |-> uu.scalar,
                     idx |-> [k \in DOMAIN uu.vals |->
                        searchsorted(c, FMul(uu.vals[k], c[Len(c)]), "right")]])

sample(w, size, u, rnd) ==
    LET c == cumsum(w)
    IN  IF ~u.given /\ size # NoSize THEN Raise("AssertionError")
        ELSE LET uu == IF u.given THEN u ELSE uniform(size, rnd)
             IN  Ok([scalar |-> uu.scalar,
                     idx |-> [k \in DOMAIN uu.vals |->
                        searchsorted(c, FMul(uu.vals[k], c[Len(c)]), "left")]])

\* numpy.exp of a log-weight given in units of ln 2
exp(l) == IF l >= 0 THEN Frac(2 ^ l, 1) ELSE Frac(1, 2 ^ (-l))

\* w.max()
RECURSIVE max(_)
max(w) ==
    IF Len(w) = 1 THEN w[1]
    ELSE LET m == max(Tail(w)) IN IF w[1] > m THEN w[1] ELSE m

\* log_sample whose exp(a) result is dropped instead of written to a
log_sample_weights_no_exp(w) == [i \in DOMAIN w |-> Frac(w[i] - max(w), 1)]

\* a = w - w.max(); exp(a, out=a)
log_sample_weights(w) == [i \in DOMAIN w |-> exp(w[i] - max(w))]

log_sample(w, rnd) == sample(log_sample_weights(w), NoSize, NoU, rnd)

\* p.sum()
RECURSIVE sum(_)
sum(p) == IF p = <<>> THEN Zero ELSE FAdd(Head(p), sum(Tail(p)))

\* (p >= 0).all() and abs(1 - p.sum()) < 1e-10
is_distribution(p) ==
    /\ \A i \in DOMAIN p : FLe(Zero, p[i])
    /\ LET dd == FSub(One, sum(p))
       IN  Abs(dd[1]) * 100000 < Ceil(Frac(dd[2], 100000))

\* Mixture.rvs of a mixture with weights w; the draw of component j is
\* kept as the component's index
Mixture_rvs(w, size, rnd) ==
    LET i == sample(w, size, NoU, rnd)
    IN  IF i.kind # "ok" THEN i
        ELSE IF i.val.scalar THEN Raise("TypeError")
        ELSE Ok([scalar |-> FALSE,
                 idx |-> [k \in DOMAIN i.val.idx |-> i.val.idx[k]]])

MaxW == 1
WeightValues == { Frac(-1, 1) } \cup { Frac(k, 2) : k \in 0..(2 * MaxW) }
Weights == UNION { [1..n -> WeightValues] : n \in 1..MaxLen }
LogWeights == UNION { [1..n -> (-MaxLogW)..MaxLogW] : n \in 1..MaxLen }
Sizes == { NoSize } \cup 1..MaxSize
UValues == { Frac(k, UDen) : k \in 0..(UDen + 1) }
UArgs == { NoU } \cup { ScalarU(v) : v \in UValues }
           \cup { ArrayU(vs) : vs \in UNION { [1..n -> UGrid] : n \in 1..MaxSize } }
\* the draws the generator would hand to a call with these arguments
Rnd(size, u) ==
    IF u.given THEN { <<>> }
    ELSE [1..(IF size = NoSize THEN 1 ELSE size) -> UniformDraws]

\* the draws a call consumed
Drawn(size, u, rnd) ==
    IF u.given \/ size # NoSize THEN <<>> ELSE <<rnd[1]>>

\* sample, log_sample and Mixture.rvs keep no state: a behaviour is one call
Sample ==
    /\ call.op = "none"
    /\ \E w \in Weights, size \in Sizes, u \in UArgs :
       \E rnd \in Rnd(size, u) :
        /\ call' = [op |-> "sample", w |-> w, size |-> size, u |-> u,
                    drawn |-> Drawn(size, u, rnd)]
        /\ ret' = sample(w, size, u, rnd)
    /\ UNCHANGED <<t, e, xin>>

LogSample ==
    /\ call.op = "none"
    /\ \E w \in LogWeights, rnd \in Rnd(NoSize, NoU) :
        /\ call' = [op |-> "log_sample", w |-> w, drawn |-> <<rnd[1]>>]
        /\ ret' = log_sample(w, rnd)
    /\ UNCHANGED <<t, e, xin>>

MixtureRvs ==
    /\ call.op = "none"
    /\ \E w \in Weights, size \in Sizes :
       \E rnd \in Rnd(size, NoU) :
        /\ is_distribution(w)
        /\ call' = [op |-> "Mixture.rvs", w |-> w, size |-> size,
                    drawn |-> Drawn(size, NoU, rnd)]
        /\ ret' = Mixture_rvs(w, size, rnd)
    /\ UNCHANGED <<t, e, xin>>

NextS == Sample \/ LogSample \/ MixtureRvs

SpecS == Init /\ [][NextS]_vars

\* =================================================================== claims
\* the caller's samples, counted directly
Stored == { xin[i] : i \in DOMAIN xin }
CountLe(v) == Cardinality({ i \in DOMAIN xin : FLe(xin[i], v) })
CountLt(v) == Cardinality({ i \in DOMAIN xin : FLt(xin[i], v) })

RECURSIVE SumAt(_)
SumAt(I) ==
    IF I = {} THEN Zero
    ELSE LET i == CHOOSE j \in I : TRUE IN FAdd(xin[i], SumAt(I \ {i}))

ValidQ(q) == FLe(Zero, q) /\ FLe(q, One)

\* C1 (as claimed): sample rejects a call that gives both size and u with an
\* assertion failure, and a call that gives size and no u succeeds and
\* returns size indices.
C1_SizeAndUExclusive ==
    call.op = "sample" =>
        /\ (call.u.given /\ call.size # NoSize) => ret.kind = "AssertionError"
        /\ (~call.u.given /\ call.size # NoSize) =>
              (ret.kind = "ok" /\ Len(ret.val.idx) = call.size)

\* C2 (as claimed): quantile(q) is the smallest stored value v with
\* cdf(v) >= q, so cdf(quantile(q)) >= q.
C2_SmallestWithCdfAtLeastQ ==
    (e.made /\ call.op = "quantile" /\ ValidQ(call.q)) =>
        /\ ret.kind = "ok"
        /\ FLe(call.q, Empirical_call(e, ret.val))
        /\ \A v \in Stored : FLe(call.q, Empirical_call(e, v)) => FLe(ret.val, v)

\* C2 (amended): for 0 <= q <= 1 quantile(q) is the stored value at position
\* floor(q * (n - 1)) of the sorted samples (fewer than or exactly q*(n-1)
\* samples lie strictly below it, more than q*(n-1) lie at or below it), and
\* it never exceeds any stored value v with cdf(v) >= q.
C2_LowerOrderStatistic ==
    (e.made /\ call.op = "quantile" /\ ValidQ(call.q)) =>
        /\ ret.kind = "ok"
        /\ ret.val \in Stored
        /\ LET pos == FMul(call.q, Frac(Len(xin) - 1, 1))
           IN  /\ FLe(Frac(CountLt(ret.val), 1), pos)
               /\ FLt(pos, Frac(CountLe(ret.val), 1))
        /\ \A v \in Stored : FLe(call.q, Empirical_call(e, v)) => FLe(ret.val, v)

C2_Witness ==
    /\ e.made /\ call.op = "quantile" /\ ValidQ(call.q)
    /\ ret.kind = "ok"
    /\ FLt(Empirical_call(e, ret.val), call.q)

\* C3 (as claimed): conditional_mean(a, b) is the mean of the stored values
\* v with a <= v < b, counted with multiplicity, and +infinity when there is
\* none.
C3_HalfOpenMean ==
    (e.made /\ call.op = "conditional_mean") =>
        LET I == { i \in DOMAIN xin : FLe(call.a, xin[i]) /\ FLt(xin[i], call.b) }
        IN  ret.val = IF I = {} THEN Inf
                      ELSE FDiv(SumAt(I), Frac(Cardinality(I), 1))

\* C4: for non-negative weights with positive sum and draws u in [0, 1],
\* sample(w, u=u) returns the smallest index i with c[i] >= u * c[-1], which
\* is a position 0..len(w)-1.
PrefixSum(w, i) == sum(SubSeq(w, 1, i))

ValidWeights(w) ==
    /\ \A i \in DOMAIN w : FLe(Zero, w[i])
    /\ FLt(Zero, sum(w))

C4_SmallestIndex ==
    (/\ call.op = "sample" /\ call.u.given /\ call.size = NoSize
     /\ ValidWeights(call.w)
     /\ \A k \in DOMAIN call.u.vals : FLe(call.u.vals[k], One)) =>
        /\ ret.kind = "ok"
        /\ DOMAIN ret.val.idx = DOMAIN call.u.vals
        /\ \A k \in DOMAIN call.u.vals :
              LET i == ret.val.idx[k]
                  v == FMul(call.u.vals[k], PrefixSum(call.w, Len(call.w)))
              IN  /\ i \in 0..(Len(call.w) - 1)
                  /\ FLe(v, PrefixSum(call.w, i + 1))
                  /\ \A j \in 0..(i - 1) : FLt(PrefixSum(call.w, j + 1), v)

C4_Witness ==
    /\ call.op = "sample" /\ call.u.given /\ call.size = NoSize
    /\ ValidWeights(call.w) /\ Len(call.w) = 3
    /\ call.u.scalar /\ FLt(Zero, call.u.vals[1]) /\ FLt(call.u.vals[1], One)
    /\ ret.kind = "ok" /\ ret.val.idx = <<1>>
    /\ PrefixSum(call.w, 2) = FMul(call.u.vals[1], PrefixSum(call.w, 3))

\* C5: cdf(z) is (number of samples <= z) / n whatever the order of the input
\* and its ties: non-decreasing in z, 0 below the minimum, 1 from the maximum.
C5_CdfCountsAtMost ==
    (e.made /\ call.op = "cdf") =>
        /\ ret.val = Frac(CountLe(call.z), Len(xin))
        /\ \A y \in ZGrid : FLe(y, call.z) => FLe(Empirical_call(e, y), ret.val)
        /\ (\A v \in Stored : FLt(call.z, v)) => ret.val = Zero
        /\ (\A v \in Stored : FLe(v, call.z)) => ret.val = One

C5_Witness ==
    /\ e.made /\ call.op = "cdf"
    /\ \E i, j \in DOMAIN xin : i < j /\ FLt(xin[j], xin[i])
    /\ \E i, j \in DOMAIN xin : i # j /\ xin[i] = call.z /\ xin[j] = call.z
    /\ FLt(Zero, ret.val) /\ FLt(ret.val, One)

\* C6: with positive truncation mass, cdf(ppf(u)) = u for every u in (0, 1],
\* and ppf(cdf(x)) = x for every x in [a, b] where the density is positive.
C6_RoundTrip ==
    (t.made /\ FLt(Zero, t.cdf_w)) =>
        /\ (call.op = "ppf" /\ FLt(Zero, call.u)) =>
              TruncatedDistribution_cdf(t, ret.val) = call.u
        /\ (/\ call.op = "cdf" /\ FLe(t.a, call.x) /\ FLe(call.x, t.b)
            /\ FLt(Zero, TruncatedDistribution_pdf(t, call.x))) =>
              TruncatedDistribution_ppf(t, ret.val) = call.x

C6_Witness ==
    /\ t.made /\ FLt(Zero, t.cdf_a) /\ FLt(t.cdf_b, One) /\ FLt(Zero, t.cdf_w)
    /\ call.op = "ppf" /\ FLt(Zero, call.u) /\ FLt(call.u, One)
    /\ FLt(t.a, ret.val) /\ FLt(ret.val, t.b)
    /\ ret.val[2] # 1

\* C7 (as claimed): every constructed TruncatedDistribution has truncation
\* mass cdf_w > 0.
C7_PositiveMass == t.made => FLt(Zero, t.cdf_w)

\* C8: with positive truncation mass the truncated cdf is non-decreasing on
\* the whole line, stays in [0, 1], is 0 up to a and 1 from b on.
C8_CdfMonotone ==
    (t.made /\ FLt(Zero, t.cdf_w) /\ call.op = "cdf") =>
        /\ FLe(Zero, ret.val) /\ FLe(ret.val, One)
        /\ FLe(call.x, t.a) => ret.val = Zero
        /\ FLe(t.b, call.x) => ret.val = One
        /\ \A y \in XGrid :
              FLe(y, call.x) => FLe(TruncatedDistribution_cdf(t, y), ret.val)
        /\ TruncatedDistribution_cdf(t, t.a) = Zero
        /\ TruncatedDistribution_cdf(t, t.b) = One

C8_Witness ==
    /\ t.made /\ FLt(Zero, t.cdf_w) /\ call.op = "cdf"
    /\ FLt(t.b, call.x)
    /\ FLt(t.cdf_b, d_cdf(t.d, call.x))
    /\ FLt(Zero, t.cdf_a)
    /\ ret.val = One

\* C9: quantile(cdf(v)) = v and cdf(quantile(cdf(v))) = cdf(v) for every
\* stored value v, quantile(0) is the minimum and quantile(1) the maximum.
C9_RightInverse ==
    (e.made /\ call.op = "quantile") =>
        /\ \A v \in Stored :
              call.q = Empirical_call(e, v) =>
                  /\ ret.kind = "ok"
                  /\ ret.val = v
                  /\ Empirical_call(e, ret.val) = call.q
        /\ call.q = Zero =>
              (ret.kind = "ok" /\ \A v \in Stored : FLe(ret.val, v))
        /\ call.q = One =>
              (ret.kind = "ok" /\ \A v \in Stored : FLe(v, ret.val))

C9_Witness ==
    /\ e.made /\ call.op = "quantile"
    /\ FLt(Zero, call.q) /\ FLt(call.q, One)
    /\ ret.kind = "ok"
    /\ call.q = Empirical_call(e, ret.val)
    /\ \E i, j \in DOMAIN xin : i # j /\ xin[i] = ret.val /\ xin[j] = ret.val
    /\ \E i \in DOMAIN xin : FLt(ret.val, xin[i])

\* C10: log_sample picks, for the draw it makes, the index sample picks from
\* the linear weights exp(log_w) for the same draw; the shifted weights it
\* samples from have maximum exactly 1.
C10_SameIndexAsLinear ==
    call.op = "log_sample" =>
        LET lin == [i \in DOMAIN call.w |-> exp(call.w[i])]
            sh  == log_sample_weights(call.w)
        IN  /\ ret = sample(lin, NoSize, ScalarU(call.drawn[1]), <<>>)
            /\ \E i \in DOMAIN sh : sh[i] = One
            /\ \A i \in DOMAIN sh : FLe(sh[i], One)

C10_Witness ==
    /\ call.op = "log_sample"
    /\ max(call.w) # 0
    /\ \E i, j \in DOMAIN call.w : call.w[i] # call.w[j]
    /\ ret.kind = "ok" /\ ret.val.idx[1] > 0
    /\ FLt(Zero, call.drawn[1])

====
